---- MODULE Spec2Model ----
(***************************************************************************)
(* A model of the text-to-speech core of the repository (voice-model/):   *)
(* the text featurizer, the manifest-driven dataset, batch collation and  *)
(* the autoregressive decoder's inference loop.                           *)
(*                                                                         *)
(* The subsystem has several independent entry points (a training script, *)
(* an inference script, a dataset smoke test).  The variable `entry`      *)
(* records which part of the program a behaviour exercises; the variables *)
(* of the other parts stay at their initial values.                       *)
(***************************************************************************)
EXTENDS Integers, Sequences, FiniteSets, TLC

VARIABLES
    entry,              \* which component this behaviour exercises
    \* ---- TextProcessor (dataset.py:14-40)
    tp_pc,              \* "init" | "encoded" | "decoded"
    tp_text,            \* the input text, a sequence of characters
    tp_sequence,        \* text_to_sequence(tp_text)
    tp_roundtrip,       \* sequence_to_text(tp_sequence)
    \* ---- Decoder.inference (model.py:319-360)
    max_decoder_steps,  \* config.model.max_decoder_steps of this run
    inf_pc,             \* "idle" | "loop" | "stack" | "done"
    inf_i,              \* number of completed iterations of the for loop
    decoder_input,      \* the frame fed to the next decode_step
    mel_outputs,        \* list of frames appended so far
    gate_outputs,       \* list of sigmoid(gate) values appended so far (tenths)
    inf_result,         \* the stacked mel spectrogram returned, <<>> before
    training,           \* the decoder's nn.Module.training flag
    dropouts,           \* per decode step, which dropouts were active
    inf_inputs,         \* per decode step, the decoder_input it was given
    inf_states,         \* states: the attention weights and their running sum
    inf_att_args,       \* per decode step, attention_weights_cat as passed
    alignments,         \* inference: the list alignments
    \* ---- collate_fn (dataset.py:164-194)
    cf_pc,              \* "init" | "done"
    batch,              \* the list of samples handed to collate_fn
    collated,           \* the dict collate_fn returns
    \* ---- LJSpeechDataset construction (dataset.py:99-141)
    manifest_exists,    \* does metadata_path exist on disk
    manifest,           \* the lines of the manifest, each split at '|'
    files,              \* the paths that exist on disk
    unloadable,         \* the existing paths torchaudio.load fails on
    max_samples,        \* <<>> for None, <<n>> for the integer n
    ds_pc,              \* "new" | "reading" | "constructed" | "raised" |
                        \* "item" | "item_raised"
    ds_i,               \* index (0-based) of the next manifest line
    samples,            \* the list _load_metadata builds / self.samples
    inspected,          \* the audio paths whose existence was tested, in order
    item,               \* <<>>, or <<d>> for the dict d the last dataset[i] returned
    ds_error,           \* the exception that left the dataset, or "none"
    \* ---- TTSTrainer and the training script (train.py, train_voice_model.py)
    tr_pc,              \* the statement main / train / train_step executes next
    tr_rows,            \* number of well-formed rows of the training manifest
    tr_missing,         \* how many of them name an audio file that is missing
    tr_epochs,          \* the epochs argument of train()
    tr_resume,          \* args.resume: <<>> or <<path>>
    disk,               \* the checkpoint files on disk: path -> checkpoint
    tr_epoch,           \* self.epoch
    global_step,        \* self.global_step
    best_loss,          \* self.best_loss
    weights,            \* model weights: number of optimizer steps they hold
    opt_state,          \* optimizer state: number of steps it has taken
    sched_state,        \* scheduler state: number of scheduler steps taken
    tr_batches,         \* len(dataloader)
    tr_loop,            \* the loop variable `epoch` of train()
    total_loss,         \* train_epoch: total_loss
    num_batches,        \* train_epoch: num_batches
    step_loss,          \* train_step: losses['total'] of the current batch
    step_ops,           \* the operations the current train_step has done
    tr_clips,           \* number of gradient clippings of this run
    tr_opt_steps,       \* number of optimizer steps of this run
    avg_loss,           \* train(): avg_loss of the current epoch
    losses,             \* train(): the list losses
    sched_calls,        \* the arguments of scheduler.step() in this run
    tr_written,         \* the files the last checkpoint decision wrote
    tr_best_start,      \* self.best_loss when main calls train()
    tr_error,           \* the exception that left main, or "none"
    reloaded,           \* <<>>, or <<state>> of a new trainer after load_checkpoint
    \* ---- TTSSynthesizer.__init__ (inference.py)
    sy_pc,              \* "off", "new", "build", "ready" or "raised"
    checkpoint,         \* the checkpoint file at model_path
    run_config,         \* the config argument: <<>> for None, <<config>> else
    sy_config,          \* self.config, <<>> before it is assigned
    sy_model,           \* self.model, <<>> before it is assigned
    sy_error,           \* the exception that left the constructor, or "none"
    \* ---- GriffinLimVocoder (inference.py)
    vo_pc,              \* "off" or "ready"
    vo_mel,             \* the mel spectrogram given to mel_to_audio
    vo_angles,          \* the initial angles each call has drawn
    vo_audio,           \* the waveforms the calls have returned
    \* ---- train_step's forward pass and loss (train.py, model.py)
    fw_pc,              \* "off", "idle", "loop" or "loss"
    fw_batch,           \* the collated batch of one utterance: mel and gate
    fw_lengths,         \* batch['mel_lengths'] of the first and second call
    fw_net,             \* the decoder's weights: step input -> predicted frame
    fw_t,               \* Decoder.forward: the loop variable t
    fw_inputs,          \* per decode step, the decoder_input it was given
    fw_mel_outputs,     \* Decoder.forward: the list mel_outputs
    fw_gate_outputs,    \* Decoder.forward: the list gate_outputs
    fw_states,          \* states: the attention weights and their running sum
    fw_att_args,        \* per decode step, attention_weights_cat as passed
    fw_alignments,      \* Decoder.forward: the list alignments
    fw_results          \* what the train_step calls have computed

tpVars  == <<tp_pc, tp_text, tp_sequence, tp_roundtrip>>
infVars == <<max_decoder_steps, inf_pc, inf_i, decoder_input, mel_outputs,
             gate_outputs, inf_result, training, dropouts, inf_inputs,
             inf_states, inf_att_args, alignments>>
cfVars  == <<cf_pc, batch, collated>>
dsInput == <<manifest_exists, manifest, files, unloadable, max_samples>>
dsVars  == <<dsInput, ds_pc, ds_i, samples, inspected, item, ds_error>>
trInput == <<tr_rows, tr_missing, tr_epochs, tr_resume>>
trSelf  == <<tr_epoch, global_step, best_loss, weights, opt_state, sched_state>>
trLocal == <<tr_batches, tr_loop, total_loss, num_batches, step_loss, step_ops,
             tr_clips, tr_opt_steps, avg_loss, losses, sched_calls, tr_written,
             tr_best_start>>
trVars  == <<tr_pc, trInput, disk, trSelf, trLocal, tr_error, reloaded>>
syVars  == <<sy_pc, checkpoint, run_config, sy_config, sy_model, sy_error>>
voVars  == <<vo_pc, vo_mel, vo_angles, vo_audio>>
fwLocal == <<fw_t, fw_inputs, fw_mel_outputs, fw_gate_outputs, fw_states,
             fw_att_args, fw_alignments>>
fwVars  == <<fw_pc, fw_batch, fw_lengths, fw_net, fwLocal, fw_results>>
vars    == <<entry, tpVars, infVars, cfVars, dsVars, trVars, syVars, voVars, fwVars>>

Range(s) == {s[i] : i \in DOMAIN s}

RECURSIVE SeqsUpTo(_, _)
\* All sequences over S of length at most n.
SeqsUpTo(S, n) ==
    IF n = 0 THEN {<<>>}
    ELSE LET shorter == SeqsUpTo(S, n - 1)
         IN  shorter \cup {Append(s, x) : s \in {t \in shorter : Len(t) = n - 1}, x \in S}

----------------------------------------------------------------------------
(* Bounds of the model *)

\* longest input text given to the TextProcessor, in characters
MaxChars == 3
\* largest max_decoder_steps a run is configured with
MaxDecoderSteps == 3
\* largest number of samples in a batch
MaxBatch == 2
\* longest text sequence of a sample, in indices
MaxTextLen == 2
\* longest mel spectrogram of a sample, in frames
MaxMelLen == 3
\* largest number of lines in a manifest
MaxLines == 3
\* largest integer given as max_samples
MaxCap == 2
\* largest number of rows in the training manifest
MaxRows == 3
\* largest epochs argument of train()
MaxEpochs == 2

----------------------------------------------------------------------------
(* Configuration: config.py *)

\* TTSConfig.characters, cut down to four of its 69 characters
characters == <<"A", "a", "0", " ">>
\* TTSConfig.pad_token
pad_token == "_"
\* characters that are in no vocabulary
UnknownChars == {"#", "~"}
\* TTSConfig.vocab_size
vocab_size == Len(characters) + 1

\* ModelConfig.gate_threshold (0.5), in tenths
gate_threshold == 5
\* the values sigmoid(gate_output) takes in the model, in tenths:
\* just below, exactly at and just above the threshold
GateValues == {gate_threshold - 1, gate_threshold, gate_threshold + 1}
\* the mel frames decode_step can predict (a frame is one n_mels column)
Frames == {1, 2}
\* Decoder.get_go_frame: the all-zero frame
get_go_frame == 0

----------------------------------------------------------------------------
(* TextProcessor: dataset.py:14-40 *)

\* dict item assignment d[k] = v
DictPut(d, k, v) == [x \in (DOMAIN d) \cup {k} |-> IF x = k THEN v ELSE d[x]]

RECURSIVE BuildCharToIdx(_, _, _)
\* for i, char in enumerate(self.characters): self.char_to_idx[char] = i + 1
\* (i here is 1-based, so it already is Python's i + 1)
BuildCharToIdx(d, chars, i) ==
    IF i > Len(chars) THEN d
    ELSE BuildCharToIdx(DictPut(d, chars[i], i), chars, i + 1)

\* self.char_to_idx after __init__
char_to_idx == BuildCharToIdx([x \in {pad_token} |-> 0], characters, 1)

\* self.idx_to_char = {v: k for k, v in self.char_to_idx.items()}
idx_to_char ==
    [v \in {char_to_idx[k] : k \in DOMAIN char_to_idx} |->
        CHOOSE k \in DOMAIN char_to_idx : char_to_idx[k] = v]

\* the unknown-character policy of text_to_sequence replaced by a
\* substitution with the padding index
SubstituteUnknown(sequence, char) ==
    IF char \in DOMAIN char_to_idx
    THEN Append(sequence, char_to_idx[char])
    ELSE Append(sequence, 0)

\* the loop body of text_to_sequence with the index taken one too high
AppendOffByOne(sequence, char) ==
    IF char \in DOMAIN char_to_idx
    THEN Append(sequence, char_to_idx[char] + 1)
    ELSE sequence

\* the loop body of text_to_sequence with the padding symbol treated as an
\* unknown character
SkipPadToken(sequence, char) ==
    IF char \in DOMAIN char_to_idx /\ char # pad_token
    THEN Append(sequence, char_to_idx[char])
    ELSE sequence

\* the loop body of text_to_sequence: append the index of a known character,
\* skip an unknown one
AppendIfKnown(sequence, char) ==
    IF char \in DOMAIN char_to_idx
    THEN Append(sequence, char_to_idx[char])
    ELSE sequence

RECURSIVE TextToSequenceLoop(_, _, _)
TextToSequenceLoop(text, i, sequence) ==
    IF i > Len(text) THEN sequence
    ELSE TextToSequenceLoop(text, i + 1, AppendIfKnown(sequence, text[i]))

\* TextProcessor.text_to_sequence
text_to_sequence(text) == TextToSequenceLoop(text, 1, <<>>)

RECURSIVE SequenceToTextLoop(_, _, _)
\* ''.join(self.idx_to_char.get(idx, '') for idx in sequence)
SequenceToTextLoop(sequence, i, out) ==
    IF i > Len(sequence) THEN out
    ELSE SequenceToTextLoop(sequence, i + 1,
            IF sequence[i] \in DOMAIN idx_to_char
            THEN Append(out, idx_to_char[sequence[i]])
            ELSE out)

\* TextProcessor.sequence_to_text
sequence_to_text(sequence) == SequenceToTextLoop(sequence, 1, <<>>)

\* the characters a caller can put in a text
InputChars == Range(characters) \cup {pad_token} \cup UnknownChars

TextInit ==
    /\ tp_pc = "init"
    /\ tp_text \in SeqsUpTo(InputChars, MaxChars)
    /\ tp_sequence = <<>>
    /\ tp_roundtrip = <<>>

TextIdle ==
    /\ tp_pc = "off"
    /\ tp_text = <<>>
    /\ tp_sequence = <<>>
    /\ tp_roundtrip = <<>>

\* sequence = text_processor.text_to_sequence(text)
TextToSequence ==
    /\ entry = "text"
    /\ tp_pc = "init"
    /\ tp_sequence' = text_to_sequence(tp_text)
    /\ tp_pc' = "encoded"
    /\ UNCHANGED <<entry, tp_text, tp_roundtrip, infVars, cfVars, dsVars, trVars, syVars, voVars, fwVars>>

\* text_processor.sequence_to_text(sequence)
SequenceToText ==
    /\ entry = "text"
    /\ tp_pc = "encoded"
    /\ tp_roundtrip' = sequence_to_text(tp_sequence)
    /\ tp_pc' = "decoded"
    /\ UNCHANGED <<entry, tp_text, tp_sequence, infVars, cfVars, dsVars, trVars, syVars, voVars, fwVars>>

----------------------------------------------------------------------------
(* Decoder.inference: model.py:319-360 *)

\* the stop test with >= in place of >
StopAtThreshold(gate) == gate >= gate_threshold

\* if torch.sigmoid(gate_output).item() > self.gate_threshold: break
StopCondition(gate) == gate > gate_threshold

\* a loop that only the gate can end
NeverExhausted(i, K) == FALSE

\* for _ in range(self.max_decoder_steps): no iteration is left after i of them
RangeExhausted(i, K) == i >= K

\* memory.new_zeros(B, T) for one utterance and an encoder output of 2 steps
ZeroWeights == <<0, 0>>

\* Decoder.initialize_states: the attention part of the states tuple
initialize_states ==
    [attention_weights |-> ZeroWeights, attention_weights_cum |-> ZeroWeights]

\* torch.stack([attention_weights, attention_weights_cum], dim=1)
AttentionWeightsCat(states) ==
    <<states.attention_weights, states.attention_weights_cum>>

\* LocationSensitiveAttention.forward: new weights (summing to 1) computed
\* from the previous and the cumulative weights; the location features turn
\* it to the encoder step attended least so far
Attention(attention_weights_cat) ==
    IF attention_weights_cat[2][1] <= attention_weights_cat[2][2]
    THEN <<1, 0>> ELSE <<0, 1>>

\* a cumulative vector that is replaced by the latest weights
CumReplace(cum, w) == w

\* attention_weights_cum = attention_weights_cum + attention_weights
CumAdd(cum, w) == [k \in DOMAIN cum |-> cum[k] + w[k]]

\* the attention part of decode_step: the new states
DecodeStepStates(states) ==
    LET w == Attention(AttentionWeightsCat(states))
    IN  [attention_weights     |-> w,
         attention_weights_cum |-> CumAdd(states.attention_weights_cum, w)]

\* a prenet whose dropout follows the module's mode
PrenetDropoutFollowsMode(mode) == mode

\* Prenet.forward: F.dropout(F.relu(layer(x)), p=0.5, training=True)
PrenetDropoutActive(mode) == TRUE

\* nn.Dropout (attention_dropout, decoder_dropout) is active in train mode
ModuleDropoutActive(mode) == mode

\* the dropouts of one decode_step under the module's mode
DecodeStepDropouts(mode) ==
    [prenet    |-> PrenetDropoutActive(mode),
     attention |-> ModuleDropoutActive(mode),
     decoder   |-> ModuleDropoutActive(mode)]

\* training is TRUE for a new module and FALSE after model.eval(), which
\* the synthesizer calls
InferenceInit ==
    /\ max_decoder_steps \in 1..MaxDecoderSteps
    /\ training \in BOOLEAN
    /\ dropouts = <<>>
    /\ inf_inputs = <<>>
    /\ inf_states = initialize_states
    /\ inf_att_args = <<>>
    /\ alignments = <<>>
    /\ inf_pc = "idle"
    /\ inf_i = 0
    /\ decoder_input = get_go_frame
    /\ mel_outputs = <<>>
    /\ gate_outputs = <<>>
    /\ inf_result = <<>>

InferenceIdle ==
    /\ max_decoder_steps = 1
    /\ training = TRUE
    /\ dropouts = <<>>
    /\ inf_inputs = <<>>
    /\ inf_states = initialize_states
    /\ inf_att_args = <<>>
    /\ alignments = <<>>
    /\ inf_pc = "off"
    /\ inf_i = 0
    /\ decoder_input = get_go_frame
    /\ mel_outputs = <<>>
    /\ gate_outputs = <<>>
    /\ inf_result = <<>>

\* decoder_input = self.get_go_frame(memory); states = ...; the lists = []
InferenceStart ==
    /\ entry = "inference"
    /\ inf_pc = "idle"
    /\ decoder_input' = get_go_frame
    /\ mel_outputs' = <<>>
    /\ gate_outputs' = <<>>
    /\ inf_i' = 0
    /\ inf_pc' = IF RangeExhausted(0, max_decoder_steps) THEN "stack" ELSE "loop"
    /\ dropouts' = <<>>
    /\ inf_inputs' = <<>>
    /\ inf_states' = initialize_states
    /\ inf_att_args' = <<>>
    /\ alignments' = <<>>
    /\ UNCHANGED <<entry, max_decoder_steps, inf_result, training, tpVars, cfVars,
                   dsVars, trVars, syVars, voVars, fwVars>>

\* one iteration of the for loop: decode_step, the three appends, the stop
\* test, and the feedback of the predicted frame
DecodeStep ==
    /\ entry = "inference"
    /\ inf_pc = "loop"
    /\ \E mel_output \in Frames, gate_output \in GateValues :
          /\ dropouts' = Append(dropouts, DecodeStepDropouts(training))
          /\ inf_inputs' = Append(inf_inputs, decoder_input)
          /\ inf_att_args' = Append(inf_att_args, AttentionWeightsCat(inf_states))
          /\ inf_states' = DecodeStepStates(inf_states)
          /\ alignments' = Append(alignments, DecodeStepStates(inf_states).attention_weights)
          /\ mel_outputs' = Append(mel_outputs, mel_output)
          /\ gate_outputs' = Append(gate_outputs, gate_output)
          /\ IF StopCondition(gate_output)
             THEN /\ inf_pc' = "stack"
                  /\ UNCHANGED <<decoder_input, inf_i>>
             ELSE /\ decoder_input' = mel_output
                  /\ inf_i' = inf_i + 1
                  /\ inf_pc' = IF RangeExhausted(inf_i + 1, max_decoder_steps)
                               THEN "stack" ELSE "loop"
    /\ UNCHANGED <<entry, max_decoder_steps, inf_result, training, tpVars, cfVars,
                   dsVars, trVars, syVars, voVars, fwVars>>

\* mel_outputs = torch.stack(mel_outputs, dim=2); ...; return
InferenceReturn ==
    /\ entry = "inference"
    /\ inf_pc = "stack"
    /\ inf_result' = mel_outputs
    /\ inf_pc' = "done"
    /\ UNCHANGED <<entry, max_decoder_steps, inf_i, decoder_input, mel_outputs,
                   gate_outputs, training, dropouts, inf_inputs, inf_states,
                   inf_att_args, alignments, tpVars, cfVars, dsVars,
                   trVars, syVars, voVars, fwVars>>

----------------------------------------------------------------------------
(* collate_fn: dataset.py:164-194 *)
(* Tensors are functions over 0-based indices, as in the code.  A mel      *)
(* frame (one column of n_mels values) is one value; 0 is the zero column. *)

\* max(...) over a non-empty collection of integers
MaxOf(S) == CHOOSE m \in S : \A x \in S : x <= m

\* torch.zeros(n)
Zeros(n) == [j \in 0..(n - 1) |-> 0]

\* row[:len] = src
AssignPrefix(row, len, src) ==
    [j \in DOMAIN row |-> IF j < len THEN src[j] ELSE row[j]]

\* row[start:] = value, with Python's handling of a negative start
AssignFrom(row, start, value) ==
    LET n  == Cardinality(DOMAIN row)
        s0 == IF start < 0 THEN (IF n + start < 0 THEN 0 ELSE n + start) ELSE start
    IN  [j \in DOMAIN row |-> IF j >= s0 THEN value ELSE row[j]]

\* the gate slice started at the sample's end instead of its last frame
GateStartAtEnd(mel_len) == mel_len

\* the first index of the slice gate_padded[i, mel_len-1:]
GateStart(mel_len) == mel_len - 1

\* only the last valid frame marked: gate_padded[i, mel_len-1] = 1.0
GateRowSingleFrame(row, mel_len) ==
    [j \in DOMAIN row |-> IF j = mel_len - 1 THEN 1 ELSE row[j]]

\* only the padding marked: gate_padded[i, mel_len:] = 1.0
GateRowPaddingOnly(row, mel_len) == AssignFrom(row, mel_len, 1)

\* gate_padded[i, mel_len-1:] = 1.0
GateRow(row, mel_len) == AssignFrom(row, GateStart(mel_len), 1)

\* every sample reported with the padded length
LengthsPadded(b, key) == [i \in DOMAIN b |-> MaxOf({b[k][key] : k \in DOMAIN b})]

\* torch.LongTensor([item[key] for item in batch])
Lengths(b, key) == [i \in DOMAIN b |-> b[i][key]]

\* collate_fn(batch)
collate_fn(b) ==
    LET max_text_len == MaxOf({b[i].text_length : i \in DOMAIN b})
        max_mel_len  == MaxOf({b[i].mel_length : i \in DOMAIN b})
    IN  [text         |-> [i \in DOMAIN b |->
                             AssignPrefix(Zeros(max_text_len), b[i].text_length, b[i].text)],
         text_lengths |-> Lengths(b, "text_length"),
         mel          |-> [i \in DOMAIN b |->
                             AssignPrefix(Zeros(max_mel_len), b[i].mel_length, b[i].mel)],
         mel_lengths  |-> Lengths(b, "mel_length"),
         gate         |-> [i \in DOMAIN b |->
                             GateRow(Zeros(max_mel_len), b[i].mel_length)]]

\* the contents of the samples differ with a seed
Seeds == {1, 2}

\* a sample as LJSpeechDataset.__getitem__ returns it: a text of tl indices of
\* the vocabulary and a mel of ml non-zero frames, with their lengths
MakeSample(tl, ml, seed) ==
    [text        |-> [j \in 0..(tl - 1) |-> (j + seed) % vocab_size],
     text_length |-> tl,
     mel         |-> [j \in 0..(ml - 1) |-> seed + 2 * j],
     mel_length  |-> ml]

SampleSet == {MakeSample(tl, ml, seed) : tl \in 0..MaxTextLen, ml \in 1..MaxMelLen,
                                         seed \in Seeds}

\* the batches a DataLoader hands to collate_fn: never empty
Batches == SeqsUpTo(SampleSet, MaxBatch) \ {<<>>}

EmptyCollated ==
    [text |-> <<>>, text_lengths |-> <<>>, mel |-> <<>>, mel_lengths |-> <<>>,
     gate |-> <<>>]

CollateInit ==
    /\ cf_pc = "init"
    /\ batch \in Batches
    /\ collated = EmptyCollated

CollateIdle ==
    /\ cf_pc = "off"
    /\ batch = <<>>
    /\ collated = EmptyCollated

\* the DataLoader's call collate_fn(batch)
CollateFn ==
    /\ entry = "collate"
    /\ cf_pc = "init"
    /\ collated' = collate_fn(batch)
    /\ cf_pc' = "done"
    /\ UNCHANGED <<entry, batch, tpVars, infVars, dsVars, trVars, syVars, voVars, fwVars>>

----------------------------------------------------------------------------
(* LJSpeechDataset.__init__ and _load_metadata: dataset.py:99-141 *)

\* the audio paths manifests name
AudioPaths == {"a.wav", "b.wav"}

\* manifest lines after line.strip().split('|'): two rows, a line without a
\* separator, and a row with a third field
LinePool == {<<"a.wav", "hi">>, <<"b.wav", "yo">>, <<"junk">>, <<"a.wav", "hi", "x">>}

\* the values of the max_samples argument: None, 0 and positive integers
CapValues == {<<>>} \cup {<<n>> : n \in 0..MaxCap}

\* the existence test of the manifest left out
ManifestAlwaysFound(exists) == FALSE

\* if not metadata_path.exists()
ManifestMissing(exists) == ~exists

\* a cap that lets one more line through
CapReachedOneLate(cap, i) == cap # <<>> /\ cap[1] # 0 /\ i > cap[1]

\* if max_samples and i >= max_samples
CapReached(cap, i) == cap # <<>> /\ cap[1] # 0 /\ i >= cap[1]

\* if len(parts) >= 2
WellFormed(parts) == Len(parts) >= 2

\* the existence test of the audio file left out
PathAlwaysExists(audio_path, fs) == TRUE

\* if Path(audio_path).exists()
PathExists(audio_path, fs) == audio_path \in fs

\* LJSpeechDataset.__len__
DatasetLen == Len(samples)

DatasetInit ==
    /\ manifest_exists \in BOOLEAN
    /\ manifest \in (IF manifest_exists THEN SeqsUpTo(LinePool, MaxLines) ELSE {<<>>})
    /\ files \in SUBSET AudioPaths
    /\ unloadable \in SUBSET files
    /\ max_samples \in CapValues
    /\ ds_pc = "new"
    /\ ds_i = 0
    /\ samples = <<>>
    /\ inspected = <<>>
    /\ item = <<>>
    /\ ds_error = "none"

DatasetIdle ==
    /\ manifest_exists = FALSE
    /\ manifest = <<>>
    /\ files = {}
    /\ unloadable = {}
    /\ max_samples = <<>>
    /\ ds_pc = "off"
    /\ ds_i = 0
    /\ samples = <<>>
    /\ inspected = <<>>
    /\ item = <<>>
    /\ ds_error = "none"

\* LJSpeechDataset(...) up to the open() of the manifest: the existence test
\* of _load_metadata, which raises FileNotFoundError out of the constructor
LoadMetadataOpen ==
    /\ entry = "dataset"
    /\ ds_pc = "new"
    /\ IF ManifestMissing(manifest_exists)
       THEN /\ ds_pc' = "raised"
            /\ ds_error' = "FileNotFoundError"
       ELSE /\ ds_pc' = "reading"
            /\ UNCHANGED ds_error
    /\ UNCHANGED <<entry, dsInput, ds_i, samples, inspected, item,
                   tpVars, infVars, cfVars, trVars, syVars, voVars, fwVars>>

\* one iteration of `for i, line in enumerate(f)`
LoadMetadataLine ==
    /\ entry = "dataset"
    /\ ds_pc = "reading"
    /\ ds_i < Len(manifest)
    /\ LET parts == manifest[ds_i + 1] IN
       IF CapReached(max_samples, ds_i)
       THEN \* break, return samples, self.samples = ...
            /\ ds_pc' = "constructed"
            /\ UNCHANGED <<ds_i, samples, inspected>>
       ELSE /\ ds_pc' = "reading"
            /\ ds_i' = ds_i + 1
            /\ IF WellFormed(parts)
               THEN /\ inspected' = Append(inspected, parts[1])
                    /\ samples' = IF PathExists(parts[1], files)
                                  THEN Append(samples, <<parts[1], parts[2]>>)
                                  ELSE samples
               ELSE UNCHANGED <<samples, inspected>>
    /\ UNCHANGED <<entry, dsInput, item, ds_error, tpVars, infVars, cfVars, trVars, syVars, voVars, fwVars>>

\* the manifest is exhausted: return samples, self.samples = ...
LoadMetadataReturn ==
    /\ entry = "dataset"
    /\ ds_pc = "reading"
    /\ ds_i = Len(manifest)
    /\ ds_pc' = "constructed"
    /\ UNCHANGED <<entry, dsInput, ds_i, samples, inspected, item, ds_error,
                   tpVars, infVars, cfVars, trVars, syVars, voVars, fwVars>>

\* waveform, sr = torchaudio.load(audio_path) raises on a file it cannot decode
LoadAudioFails(audio_path) == audio_path \in unloadable

\* dataset[idx]: LJSpeechDataset.__getitem__, which loads the audio only now
GetItem ==
    /\ entry = "dataset"
    /\ ds_pc \in {"constructed", "item"}
    /\ \E idx \in 0..(DatasetLen - 1) :
          LET audio_path == samples[idx + 1][1]
              text       == samples[idx + 1][2]
          IN  IF LoadAudioFails(audio_path)
              THEN /\ ds_pc' = "item_raised"
                   /\ ds_error' = "RuntimeError"
                   /\ UNCHANGED item
              ELSE /\ ds_pc' = "item"
                   /\ item' = <<[audio_path |-> audio_path, text |-> text]>>
                   /\ UNCHANGED ds_error
    /\ UNCHANGED <<entry, dsInput, ds_i, samples, inspected, tpVars, infVars, cfVars, trVars, syVars, voVars, fwVars>>

----------------------------------------------------------------------------
(* TTSTrainer and main(): train.py, train_voice_model.py *)
(* The trainer sees the dataset through its length; a row of the manifest  *)
(* is in the dataset when its audio file exists (dataset.py:135-136).      *)
(* Weights, optimizer state and scheduler state are represented by the     *)
(* number of updates they have received.                                   *)

\* TTSConfig.batch_size (--batch-size), 2 in place of the default 16
batch_size == 2
\* the checkpoint_every argument of train(), 2 in place of main's 10
checkpoint_every == 2
\* float('inf'), above every loss of the model
inf == 1000
\* the values losses['total'] of a batch takes
LossValues == {12, 24}
\* the configuration the trainer runs with (self.config)
tr_config == "TTSConfig"

\* os.path.join(checkpoint_dir, f'checkpoint_epoch_{epoch + 1}.pt')
EpochFile(epoch) == "checkpoint_epoch_" \o ToString(epoch + 1) \o ".pt"
\* os.path.join(output_dir, 'best_model.pt')
BestFile == "best_model.pt"
\* os.path.join(output_dir, 'final_model.pt')
FinalFile == "final_model.pt"
\* Path(checkpoint_dir) / 'interrupted_checkpoint.pt'
InterruptedFile == "interrupted_checkpoint.pt"
\* the path given as --resume
ResumeFile == "resume.pt"

\* torch.save(checkpoint, path)
TorchSave(d, path, ckpt) ==
    [x \in (DOMAIN d) \cup {path} |-> IF x = path THEN ckpt ELSE d[x]]

\* the dict save_checkpoint builds from the trainer
Checkpoint ==
    [epoch                |-> tr_epoch,
     global_step          |-> global_step,
     model_state_dict     |-> weights,
     optimizer_state_dict |-> opt_state,
     scheduler_state_dict |-> sched_state,
     config               |-> tr_config,
     best_loss            |-> best_loss]

\* TTSTrainer.save_checkpoint(path, is_best) with best_loss already updated
save_checkpoint(d, path, is_best) ==
    LET saved == TorchSave(d, path, Checkpoint)
    IN  IF is_best THEN TorchSave(saved, BestFile, Checkpoint) ELSE saved

\* the checkpoints a --resume path can name: written at the end of epoch
\* index e by a run of one batch per epoch
ResumeCheckpoints ==
    {[epoch                |-> e,
      global_step          |-> e + 1,
      model_state_dict     |-> e + 1,
      optimizer_state_dict |-> e + 1,
      scheduler_state_dict |-> e + 1,
      config               |-> tr_config,
      best_loss            |-> 18] : e \in 0..(MaxEpochs - 1)}

\* len(dataset): the rows whose audio file exists
DatasetSize(rows, missing) == rows - missing

\* len(dataloader) with drop_last=False
NumBatches(n) == (n + batch_size - 1) \div batch_size

\* the period test taken on the 0-based epoch
PeriodicDueZeroBased(epoch) == epoch % checkpoint_every = 0

\* (epoch + 1) % checkpoint_every == 0
PeriodicDue(epoch) == (epoch + 1) % checkpoint_every = 0

\* a train_step that goes from backward straight to the optimizer step
TrainStepNextNoClip(pc) ==
    CASE pc = "forward"  -> "loss"
      [] pc = "loss"     -> "backward"
      [] pc = "backward" -> "optstep"
      [] pc = "clip"     -> "optstep"
      [] pc = "optstep"  -> "count"

\* the order of the statements of train_step
TrainStepNext(pc) ==
    CASE pc = "forward"  -> "loss"
      [] pc = "loss"     -> "backward"
      [] pc = "backward" -> "clip"
      [] pc = "clip"     -> "optstep"
      [] pc = "optstep"  -> "count"

\* an is_best that holds for every epoch
IsBestAlways(loss, best) == TRUE

\* is_best = avg_loss < self.best_loss
IsBest(loss, best) == loss < best

\* a step counter that counts a batch twice
IncrementStepTwice(step) == step + 2

\* self.global_step += 1
IncrementStep(step) == step + 1

\* an epoch counter that continues from the value the trainer holds
EpochContinued(epoch, held) == held + 1

\* self.epoch = epoch: the loop index, whatever self.epoch held
EpochAssigned(epoch, held) == epoch

\* a load_checkpoint that leaves best_loss at its initial value
LoadBestLossDefault(ckpt) == inf

\* self.best_loss = checkpoint.get('best_loss', float('inf'))
LoadBestLoss(ckpt) == ckpt.best_loss

\* an interrupt handler that does not save
HandlerNoSave(d) == d

\* except KeyboardInterrupt: trainer.save_checkpoint(str(ckpt_path))
HandlerSave(d) == save_checkpoint(d, InterruptedFile, FALSE)

TrainerInit ==
    /\ tr_pc = "created"
    /\ tr_rows \in 0..MaxRows
    /\ tr_missing \in 0..tr_rows
    /\ tr_epochs \in 1..MaxEpochs
    /\ \/ tr_resume = <<>> /\ disk = <<>>
       \/ /\ tr_resume = <<ResumeFile>>
          /\ \E c \in ResumeCheckpoints : disk = [x \in {ResumeFile} |-> c]
    /\ tr_epoch = 0
    /\ global_step = 0
    /\ best_loss = inf
    /\ weights = 0
    /\ opt_state = 0
    /\ sched_state = 0
    /\ tr_batches = 0
    /\ tr_loop = 0
    /\ total_loss = 0
    /\ num_batches = 0
    /\ step_loss = 0
    /\ step_ops = <<>>
    /\ tr_clips = 0
    /\ tr_opt_steps = 0
    /\ avg_loss = 0
    /\ losses = <<>>
    /\ sched_calls = <<>>
    /\ tr_written = {}
    /\ tr_best_start = inf
    /\ tr_error = "none"
    /\ reloaded = <<>>

TrainerIdle ==
    /\ tr_pc = "off"
    /\ tr_rows = 0
    /\ tr_missing = 0
    /\ tr_epochs = 1
    /\ tr_resume = <<>>
    /\ disk = <<>>
    /\ tr_epoch = 0
    /\ global_step = 0
    /\ best_loss = inf
    /\ weights = 0
    /\ opt_state = 0
    /\ sched_state = 0
    /\ tr_batches = 0
    /\ tr_loop = 0
    /\ total_loss = 0
    /\ num_batches = 0
    /\ step_loss = 0
    /\ step_ops = <<>>
    /\ tr_clips = 0
    /\ tr_opt_steps = 0
    /\ avg_loss = 0
    /\ losses = <<>>
    /\ sched_calls = <<>>
    /\ tr_written = {}
    /\ tr_best_start = inf
    /\ tr_error = "none"
    /\ reloaded = <<>>

\* what the first trainer's statements leave alone
trOthers == <<entry, reloaded, tpVars, infVars, cfVars, dsVars, syVars, voVars, fwVars>>

\* main: if args.resume: trainer.load_checkpoint(args.resume)
MainResume ==
    /\ entry = "train"
    /\ tr_pc = "created"
    /\ IF tr_resume # <<>>
       THEN LET ckpt == disk[tr_resume[1]] IN
            /\ weights' = ckpt.model_state_dict
            /\ opt_state' = ckpt.optimizer_state_dict
            /\ sched_state' = ckpt.scheduler_state_dict
            /\ tr_epoch' = ckpt.epoch
            /\ global_step' = ckpt.global_step
            /\ best_loss' = LoadBestLoss(ckpt)
       ELSE UNCHANGED trSelf
    /\ tr_best_start' = best_loss'
    /\ tr_pc' = "train"
    /\ UNCHANGED <<trInput, disk, tr_batches, tr_loop, total_loss, num_batches,
                   step_loss, step_ops, tr_clips, tr_opt_steps, avg_loss, losses,
                   sched_calls, tr_written, tr_error, trOthers>>

\* train(): dataloader = self.create_dataloader(max_samples), losses = [].
\* An empty dataset either makes the DataLoader's RandomSampler raise
\* ValueError or yields a loader of no batches, with the torch at hand.
CreateDataloader ==
    /\ entry = "train"
    /\ tr_pc = "train"
    /\ LET n == DatasetSize(tr_rows, tr_missing) IN
       \/ /\ tr_batches' = NumBatches(n)
          /\ tr_pc' = "for_epoch"
          /\ UNCHANGED tr_error
       \/ /\ n = 0
          /\ tr_pc' = "raised"
          /\ tr_error' = "ValueError"
          /\ UNCHANGED tr_batches
    /\ UNCHANGED <<trInput, disk, trSelf, tr_loop, total_loss, num_batches,
                   step_loss, step_ops, tr_clips, tr_opt_steps, avg_loss, losses,
                   sched_calls, tr_written, tr_best_start, trOthers>>

\* for epoch in range(epochs): self.epoch = epoch; train_epoch begins
ForEpoch ==
    /\ entry = "train"
    /\ tr_pc = "for_epoch"
    /\ IF tr_loop < tr_epochs
       THEN /\ tr_epoch' = EpochAssigned(tr_loop, tr_epoch)
            /\ total_loss' = 0
            /\ num_batches' = 0
            /\ tr_pc' = "for_batch"
       ELSE /\ tr_pc' = "final"
            /\ UNCHANGED <<tr_epoch, total_loss, num_batches>>
    /\ UNCHANGED <<trInput, disk, global_step, best_loss, weights, opt_state,
                   sched_state, tr_batches, tr_loop, step_loss, step_ops, tr_clips,
                   tr_opt_steps, avg_loss, losses, sched_calls, tr_written,
                   tr_best_start, tr_error, trOthers>>

\* for batch in pbar: the next batch enters train_step, or the loop ends
ForBatch ==
    /\ entry = "train"
    /\ tr_pc = "for_batch"
    /\ IF num_batches < tr_batches
       THEN tr_pc' = "forward" /\ step_ops' = <<>>
       ELSE tr_pc' = "mean" /\ UNCHANGED step_ops
    /\ UNCHANGED <<trInput, disk, trSelf, tr_batches, tr_loop, total_loss,
                   num_batches, step_loss, tr_clips, tr_opt_steps, avg_loss,
                   losses, sched_calls, tr_written, tr_best_start, tr_error,
                   trOthers>>

\* train_step: model.train(), zero_grad(), the forward pass
Forward ==
    /\ entry = "train"
    /\ tr_pc = "forward"
    /\ step_ops' = Append(step_ops, "forward")
    /\ tr_pc' = TrainStepNext(tr_pc)
    /\ UNCHANGED <<trInput, disk, trSelf, tr_batches, tr_loop, total_loss,
                   num_batches, step_loss, tr_clips, tr_opt_steps, avg_loss,
                   losses, sched_calls, tr_written, tr_best_start, tr_error,
                   trOthers>>

\* train_step: losses = self.compute_loss(...)
ComputeLoss ==
    /\ entry = "train"
    /\ tr_pc = "loss"
    /\ step_loss' \in LossValues
    /\ step_ops' = Append(step_ops, "loss")
    /\ tr_pc' = TrainStepNext(tr_pc)
    /\ UNCHANGED <<trInput, disk, trSelf, tr_batches, tr_loop, total_loss,
                   num_batches, tr_clips, tr_opt_steps, avg_loss, losses,
                   sched_calls, tr_written, tr_best_start, tr_error, trOthers>>

\* train_step: losses['total'].backward()
Backward ==
    /\ entry = "train"
    /\ tr_pc = "backward"
    /\ step_ops' = Append(step_ops, "backward")
    /\ tr_pc' = TrainStepNext(tr_pc)
    /\ UNCHANGED <<trInput, disk, trSelf, tr_batches, tr_loop, total_loss,
                   num_batches, step_loss, tr_clips, tr_opt_steps, avg_loss,
                   losses, sched_calls, tr_written, tr_best_start, tr_error,
                   trOthers>>

\* train_step: torch.nn.utils.clip_grad_norm_(...)
ClipGradNorm ==
    /\ entry = "train"
    /\ tr_pc = "clip"
    /\ step_ops' = Append(step_ops, "clip")
    /\ tr_clips' = tr_clips + 1
    /\ tr_pc' = TrainStepNext(tr_pc)
    /\ UNCHANGED <<trInput, disk, trSelf, tr_batches, tr_loop, total_loss,
                   num_batches, step_loss, tr_opt_steps, avg_loss, losses,
                   sched_calls, tr_written, tr_best_start, tr_error, trOthers>>

\* train_step: self.optimizer.step()
OptimizerStep ==
    /\ entry = "train"
    /\ tr_pc = "optstep"
    /\ step_ops' = Append(step_ops, "step")
    /\ weights' = weights + 1
    /\ opt_state' = opt_state + 1
    /\ tr_opt_steps' = tr_opt_steps + 1
    /\ tr_pc' = TrainStepNext(tr_pc)
    /\ UNCHANGED <<trInput, disk, tr_epoch, global_step, best_loss, sched_state,
                   tr_batches, tr_loop, total_loss, num_batches, step_loss,
                   tr_clips, avg_loss, losses, sched_calls, tr_written,
                   tr_best_start, tr_error, trOthers>>

\* train_step: self.global_step += 1 and the return; train_epoch:
\* total_loss += losses['total'], num_batches += 1
CountStep ==
    /\ entry = "train"
    /\ tr_pc = "count"
    /\ global_step' = IncrementStep(global_step)
    /\ total_loss' = total_loss + step_loss
    /\ num_batches' = num_batches + 1
    /\ tr_pc' = "for_batch"
    /\ UNCHANGED <<trInput, disk, tr_epoch, best_loss, weights, opt_state,
                   sched_state, tr_batches, tr_loop, step_loss, step_ops, tr_clips,
                   tr_opt_steps, avg_loss, losses, sched_calls, tr_written,
                   tr_best_start, tr_error, trOthers>>

\* train_epoch: avg_loss = total_loss / num_batches, which raises
\* ZeroDivisionError without a batch; train(): losses.append(avg_loss)
TrainEpochReturn ==
    /\ entry = "train"
    /\ tr_pc = "mean"
    /\ IF num_batches = 0
       THEN /\ tr_pc' = "raised"
            /\ tr_error' = "ZeroDivisionError"
            /\ UNCHANGED <<avg_loss, losses>>
       ELSE /\ avg_loss' = total_loss \div num_batches
            /\ losses' = Append(losses, total_loss \div num_batches)
            /\ tr_pc' = "sched"
            /\ UNCHANGED tr_error
    /\ UNCHANGED <<trInput, disk, trSelf, tr_batches, tr_loop, total_loss,
                   num_batches, step_loss, step_ops, tr_clips, tr_opt_steps,
                   sched_calls, tr_written, tr_best_start, trOthers>>

\* train(): self.scheduler.step(avg_loss)
SchedulerStep ==
    /\ entry = "train"
    /\ tr_pc = "sched"
    /\ sched_state' = sched_state + 1
    /\ sched_calls' = Append(sched_calls, avg_loss)
    /\ tr_pc' = "decide"
    /\ UNCHANGED <<trInput, disk, tr_epoch, global_step, best_loss, weights,
                   opt_state, tr_batches, tr_loop, total_loss, num_batches,
                   step_loss, step_ops, tr_clips, tr_opt_steps, avg_loss, losses,
                   tr_written, tr_best_start, tr_error, trOthers>>

\* train(): is_best, the update of best_loss and the conditional
\* save_checkpoint(ckpt_path, is_best); then the next loop iteration
CheckpointDecision ==
    /\ entry = "train"
    /\ tr_pc = "decide"
    /\ LET is_best == IsBest(avg_loss, best_loss)
           best    == IF is_best THEN avg_loss ELSE best_loss
           saved   == [Checkpoint EXCEPT !.best_loss = best]
       IN  /\ best_loss' = best
           /\ IF PeriodicDue(tr_loop) \/ is_best
              THEN /\ disk' = IF is_best
                              THEN TorchSave(TorchSave(disk, EpochFile(tr_loop), saved),
                                             BestFile, saved)
                              ELSE TorchSave(disk, EpochFile(tr_loop), saved)
                   /\ tr_written' = IF is_best THEN {EpochFile(tr_loop), BestFile}
                                    ELSE {EpochFile(tr_loop)}
              ELSE /\ tr_written' = {}
                   /\ UNCHANGED disk
    /\ tr_loop' = tr_loop + 1
    /\ tr_pc' = "for_epoch"
    /\ UNCHANGED <<trInput, tr_epoch, global_step, weights, opt_state, sched_state,
                   tr_batches, total_loss, num_batches, step_loss, step_ops,
                   tr_clips, tr_opt_steps, avg_loss, losses, sched_calls,
                   tr_best_start, tr_error, trOthers>>

\* train(): self.save_checkpoint(final_path), plot_loss, return losses
SaveFinal ==
    /\ entry = "train"
    /\ tr_pc = "final"
    /\ disk' = save_checkpoint(disk, FinalFile, FALSE)
    /\ tr_pc' = "done"
    /\ UNCHANGED <<trInput, trSelf, trLocal, tr_error, trOthers>>

\* the statements of train() at which the epoch loop is running
LoopPcs == {"for_epoch", "for_batch", "forward", "loss", "backward", "clip",
            "optstep", "count", "mean", "sched", "decide"}

\* a KeyboardInterrupt raised inside trainer.train(...), caught by main's
\* except clause, which saves a checkpoint and lets main return
KeyboardInterrupt ==
    /\ entry = "train"
    /\ tr_pc \in LoopPcs \cup {"train", "final"}
    /\ disk' = HandlerSave(disk)
    /\ tr_pc' = "interrupted"
    /\ UNCHANGED <<trInput, trSelf, trLocal, tr_error, trOthers>>

\* TTSTrainer.load_checkpoint(path) on a new trainer, for a file the run
\* has left on disk
LoadCheckpoint ==
    /\ entry = "train"
    /\ tr_pc \in {"done", "interrupted"}
    /\ reloaded = <<>>
    /\ \E path \in DOMAIN disk :
          LET ckpt == disk[path] IN
          reloaded' = <<[path        |-> path,
                         weights     |-> ckpt.model_state_dict,
                         opt_state   |-> ckpt.optimizer_state_dict,
                         sched_state |-> ckpt.scheduler_state_dict,
                         epoch       |-> ckpt.epoch,
                         global_step |-> ckpt.global_step,
                         best_loss   |-> LoadBestLoss(ckpt)]>>
    /\ UNCHANGED <<tr_pc, trInput, disk, trSelf, trLocal, tr_error, entry, tpVars,
                   infVars, cfVars, dsVars, syVars, voVars, fwVars>>

----------------------------------------------------------------------------
(* TTSSynthesizer.__init__: inference.py *)
(* A configuration is represented by the fields the model's shapes, the    *)
(* text processor and the vocoder read; a state dict by the shapes of the  *)
(* parameters that depend on the configuration.                            *)

\* values of TTSConfig.characters: the trained one, one of the same length
\* with another character, one longer
CharacterSets == {<<"A", "a">>, <<"A", "b">>, <<"A", "a", "0">>}
\* values of AudioConfig.n_mels
MelChannels == {80, 40}
\* values of AudioConfig.sample_rate
SampleRates == {22050, 16000}

Configs == [characters : CharacterSets, n_mels : MelChannels,
            sample_rate : SampleRates]

\* TTSConfig.vocab_size of a configuration
VocabSizeOf(config) == Len(config.characters) + 1

\* the shapes of Tacotron2(config).state_dict() that depend on config:
\* the embedding has vocab_size rows, the decoder and postnet n_mels channels
StateDictShapes(config) ==
    [embedding |-> VocabSizeOf(config), n_mels |-> config.n_mels]

\* what save_checkpoint writes for a trainer built with config
CheckpointFrom(config) ==
    [model_state_dict |-> StateDictShapes(config), config |-> config]

\* a load_state_dict that accepts every state dict
LoadStateDictLenient(model, state_dict) == FALSE

\* load_state_dict (strict) raises on a parameter of another shape
LoadStateDictRaises(model, state_dict) == model # state_dict

SynthInit ==
    /\ sy_pc = "new"
    /\ \E config \in Configs : checkpoint = CheckpointFrom(config)
    /\ \/ run_config = <<>>
       \/ \E config \in Configs : run_config = <<config>>
    /\ sy_config = <<>>
    /\ sy_model = <<>>
    /\ sy_error = "none"

SynthIdle ==
    /\ sy_pc = "off"
    /\ checkpoint = <<>>
    /\ run_config = <<>>
    /\ sy_config = <<>>
    /\ sy_model = <<>>
    /\ sy_error = "none"

syOthers == <<entry, tpVars, infVars, cfVars, dsVars, trVars, voVars, fwVars>>

\* checkpoint = torch.load(model_path); if config is None: config =
\* checkpoint.get('config', TTSConfig()); self.config = config
SynthGetConfig ==
    /\ entry = "synth"
    /\ sy_pc = "new"
    /\ sy_config' = IF run_config = <<>> THEN <<checkpoint.config>> ELSE run_config
    /\ sy_pc' = "build"
    /\ UNCHANGED <<checkpoint, run_config, sy_model, sy_error, syOthers>>

\* self.model = Tacotron2(config); load_state_dict(...); self.model.eval();
\* then the text processor and the vocoder
SynthLoadModel ==
    /\ entry = "synth"
    /\ sy_pc = "build"
    /\ LET model == StateDictShapes(sy_config[1]) IN
       IF LoadStateDictRaises(model, checkpoint.model_state_dict)
       THEN /\ sy_pc' = "raised"
            /\ sy_error' = "RuntimeError"
            /\ UNCHANGED sy_model
       ELSE /\ sy_pc' = "ready"
            /\ sy_model' = <<[state_dict |-> checkpoint.model_state_dict,
                              training   |-> FALSE]>>
            /\ UNCHANGED sy_error
    /\ UNCHANGED <<checkpoint, run_config, sy_config, syOthers>>

----------------------------------------------------------------------------
(* GriffinLimVocoder: inference.py:16-71 *)
(* A spectrogram is a sequence of frames, each one magnitude; an angle is  *)
(* a phase in quarter turns; a waveform is given by the magnitude and the  *)
(* phase of each frame it was synthesised from.                            *)

\* GriffinLimVocoder.n_iter, 2 in place of the default 60
n_iter == 2

\* the mel spectrograms given to the vocoder
VocoderMels == {<<1>>, <<1, 2>>, <<2, 1>>}

\* the values np.random.rand yields for a bin, as quarter turns
Phases == 0..3

\* mel_to_audio before _griffin_lim: np.exp, the pseudo-inverse of the mel
\* basis and the floor at 1e-10 act on each frame and give magnitudes > 0
MelToLinear(mel) == [k \in DOMAIN mel |-> 2 * mel[k] + 1]

\* scipy.signal.istft(spectrogram * angles)
Istft(spectrogram, angles) ==
    [k \in DOMAIN spectrogram |-> <<spectrogram[k], angles[k]>>]

\* angles = np.exp(1j * np.angle(stft(audio))): the phase of the nearest
\* consistent spectrogram, which keeps the half turn the phase lies in
Reestimate(audio) == [k \in DOMAIN audio |-> audio[k][2] - (audio[k][2] % 2)]

RECURSIVE GriffinLimLoop(_, _, _)
\* for _ in range(self.n_iter): audio = istft(...); angles = ...
GriffinLimLoop(spectrogram, angles, n) ==
    LET audio == Istft(spectrogram, angles)
    IN  IF n = 1 THEN audio
        ELSE GriffinLimLoop(spectrogram, Reestimate(audio), n - 1)

\* GriffinLimVocoder._griffin_lim with the angles np.random.rand has drawn
griffin_lim(spectrogram, angles) == GriffinLimLoop(spectrogram, angles, n_iter)

VocoderInit ==
    /\ vo_pc = "ready"
    /\ vo_mel \in VocoderMels
    /\ vo_angles = <<>>
    /\ vo_audio = <<>>

VocoderIdle ==
    /\ vo_pc = "off"
    /\ vo_mel = <<>>
    /\ vo_angles = <<>>
    /\ vo_audio = <<>>

\* vocoder.mel_to_audio(mel); the global numpy generator is not seeded, so
\* the initial angles are any values; a first and a second call are followed
MelToAudio ==
    /\ entry = "vocoder"
    /\ vo_pc = "ready"
    /\ Len(vo_audio) < 2
    /\ \E angles \in [DOMAIN vo_mel -> Phases] :
          /\ vo_angles' = Append(vo_angles, angles)
          /\ vo_audio' = Append(vo_audio, griffin_lim(MelToLinear(vo_mel), angles))
    /\ UNCHANGED <<vo_pc, vo_mel, entry, tpVars, infVars, cfVars, dsVars, trVars,
                   syVars, fwVars>>

----------------------------------------------------------------------------
(* train_step up to its loss: Tacotron2.forward, Decoder.forward and       *)
(* compute_loss (train.py:105-125, model.py:280-317, 434-453)              *)
(* One utterance of a collated batch is followed.  The network's weights   *)
(* and its random state are fixed over a run, so each decode step computes *)
(* a function of its input.  A loss term is the sum the criterion          *)
(* averages, the number of elements being the same for all tensors here.   *)

\* the decoder weights: the frame decode_step predicts for a step input
Nets == [{get_go_frame} \cup Frames -> Frames]

\* self.gate(decoder_output): the stop logit read off the same decoder
\* output as the frame
GateOf(mel_output) == IF mel_output = 2 THEN 1 ELSE 0

\* self.postnet(mel_outputs): the residual of a frame
PostNet(mel_output) == mel_output % 2

\* the collated tensors of an utterance of mel_len frames in a batch padded
\* to max_mel_len
Collated(frames, mel_len, max_mel_len) ==
    [mel  |-> AssignPrefix(Zeros(max_mel_len), mel_len, frames),
     gate |-> GateRow(Zeros(max_mel_len), mel_len)]

\* decoder inputs that are the targets themselves, not shifted
DecoderInputsUnshifted(mel_target) == mel_target

\* torch.cat([go_frame.unsqueeze(1), mel_target.transpose(1, 2)[:, :-1]], dim=1)
DecoderInputs(mel_target) ==
    [t \in DOMAIN mel_target |-> IF t = 0 THEN get_go_frame ELSE mel_target[t - 1]]

\* torch.stack / torch.cat of a list of per-step outputs: a tensor over time
Stack(list) == [t \in 0..(Len(list) - 1) |-> list[t + 1]]

RECURSIVE SumTo(_, _)
\* the sum of f[0], ..., f[n-1]
SumTo(f, n) == IF n = 0 THEN 0 ELSE SumTo(f, n - 1) + f[n - 1]

\* the sum of f over the frames in S
SumOver(f, S) ==
    SumTo([t \in DOMAIN f |-> IF t \in S THEN f[t] ELSE 0], Cardinality(DOMAIN f))

\* loss terms that count the frames below mel_lengths only
ValidFramesOnly(target, mel_lengths) == {t \in DOMAIN target : t < mel_lengths}

\* the frames the loss terms count: nn.MSELoss and nn.BCEWithLogitsLoss
\* take the whole tensors, mel_lengths is not passed to compute_loss
LossFrames(target, mel_lengths) == DOMAIN target

\* self.mse_loss(output, target) over the frames S
MseLoss(output, target, S) ==
    SumOver([t \in DOMAIN target |->
                (output[t] - target[t]) * (output[t] - target[t])], S)

\* self.bce_loss(gate_outputs, gate_target) over the frames S: the frames
\* whose stop prediction is wrong
BceLoss(output, target, S) ==
    SumOver([t \in DOMAIN target |-> IF output[t] = target[t] THEN 0 ELSE 1], S)

\* TTSTrainer.compute_loss, over the frames S
compute_loss(mel_out, mel_out_postnet, gate_out, mel_target, gate_target, S) ==
    LET mel_loss         == MseLoss(mel_out, mel_target, S)
        mel_postnet_loss == MseLoss(mel_out_postnet, mel_target, S)
        gate_loss        == BceLoss(gate_out, gate_target, S)
    IN  [total       |-> mel_loss + mel_postnet_loss + gate_loss,
         mel         |-> mel_loss,
         mel_postnet |-> mel_postnet_loss,
         gate        |-> gate_loss]

ForwardInit ==
    /\ fw_pc = "idle"
    /\ \E max_mel_len \in 1..MaxMelLen :
          \E mel_len \in 1..max_mel_len :
             /\ \E frames \in [0..(mel_len - 1) -> Frames] :
                   fw_batch = Collated(frames, mel_len, max_mel_len)
             /\ \E other \in 1..max_mel_len : fw_lengths = <<mel_len, other>>
    /\ fw_net \in Nets
    /\ fw_t = 0
    /\ fw_inputs = <<>>
    /\ fw_mel_outputs = <<>>
    /\ fw_gate_outputs = <<>>
    /\ fw_states = initialize_states
    /\ fw_att_args = <<>>
    /\ fw_alignments = <<>>
    /\ fw_results = <<>>

ForwardIdle ==
    /\ fw_pc = "off"
    /\ fw_batch = <<>>
    /\ fw_lengths = <<>>
    /\ fw_net = <<>>
    /\ fw_t = 0
    /\ fw_inputs = <<>>
    /\ fw_mel_outputs = <<>>
    /\ fw_gate_outputs = <<>>
    /\ fw_states = initialize_states
    /\ fw_att_args = <<>>
    /\ fw_alignments = <<>>
    /\ fw_results = <<>>

fwOthers == <<entry, tpVars, infVars, cfVars, dsVars, trVars, syVars, voVars>>

\* train_step on the batch with the call's mel_lengths: self.model(text,
\* text_lengths, mel, mel_lengths) up to the decoder loop, that is the
\* encoder, the go frame and decoder_inputs, initialize_states, the lists
TrainStepForward ==
    /\ entry = "forward"
    /\ fw_pc = "idle"
    /\ Len(fw_results) < Len(fw_lengths)
    /\ fw_t' = 0
    /\ fw_inputs' = <<>>
    /\ fw_mel_outputs' = <<>>
    /\ fw_gate_outputs' = <<>>
    /\ fw_states' = initialize_states
    /\ fw_att_args' = <<>>
    /\ fw_alignments' = <<>>
    /\ fw_pc' = "loop"
    /\ UNCHANGED <<fw_batch, fw_lengths, fw_net, fw_results, fwOthers>>

\* one iteration of `for t in range(decoder_inputs.size(1))`, or its end
ForwardDecodeStep ==
    /\ entry = "forward"
    /\ fw_pc = "loop"
    /\ LET decoder_inputs == DecoderInputs(fw_batch.mel) IN
       IF fw_t < Cardinality(DOMAIN decoder_inputs)
       THEN LET mel_output == fw_net[decoder_inputs[fw_t]] IN
            /\ fw_inputs' = Append(fw_inputs, decoder_inputs[fw_t])
            /\ fw_att_args' = Append(fw_att_args, AttentionWeightsCat(fw_states))
            /\ fw_states' = DecodeStepStates(fw_states)
            /\ fw_mel_outputs' = Append(fw_mel_outputs, mel_output)
            /\ fw_gate_outputs' = Append(fw_gate_outputs, GateOf(mel_output))
            /\ fw_alignments' = Append(fw_alignments,
                                       DecodeStepStates(fw_states).attention_weights)
            /\ fw_t' = fw_t + 1
            /\ UNCHANGED fw_pc
       ELSE /\ fw_pc' = "loss"
            /\ UNCHANGED fwLocal
    /\ UNCHANGED <<fw_batch, fw_lengths, fw_net, fw_results, fwOthers>>

\* the stacking of the lists, the postnet residual, and train_step's
\* losses = self.compute_loss(mel_outputs, mel_outputs_postnet,
\* gate_outputs, mel, gate)
TrainStepLoss ==
    /\ entry = "forward"
    /\ fw_pc = "loss"
    /\ LET mel_lengths         == fw_lengths[Len(fw_results) + 1]
           mel_outputs_t       == Stack(fw_mel_outputs)
           gate_outputs_t      == Stack(fw_gate_outputs)
           mel_outputs_postnet == [t \in DOMAIN mel_outputs_t |->
                                     mel_outputs_t[t] + PostNet(mel_outputs_t[t])]
       IN  fw_results' = Append(fw_results,
              [mel_outputs         |-> mel_outputs_t,
               mel_outputs_postnet |-> mel_outputs_postnet,
               gate_outputs        |-> gate_outputs_t,
               losses              |-> compute_loss(mel_outputs_t, mel_outputs_postnet,
                                         gate_outputs_t, fw_batch.mel, fw_batch.gate,
                                         LossFrames(fw_batch.mel, mel_lengths))])
    /\ fw_pc' = "idle"
    /\ UNCHANGED <<fw_batch, fw_lengths, fw_net, fwLocal, fwOthers>>

----------------------------------------------------------------------------

Init ==
    \/ /\ entry = "text"
       /\ TextInit /\ InferenceIdle /\ CollateIdle /\ DatasetIdle /\ TrainerIdle
       /\ SynthIdle /\ VocoderIdle
       /\ ForwardIdle
    \/ /\ entry = "inference"
       /\ TextIdle /\ InferenceInit /\ CollateIdle /\ DatasetIdle /\ TrainerIdle
       /\ SynthIdle /\ VocoderIdle
       /\ ForwardIdle
    \/ /\ entry = "collate"
       /\ TextIdle /\ InferenceIdle /\ CollateInit /\ DatasetIdle /\ TrainerIdle
       /\ SynthIdle /\ VocoderIdle
       /\ ForwardIdle
    \/ /\ entry = "dataset"
       /\ TextIdle /\ InferenceIdle /\ CollateIdle /\ DatasetInit /\ TrainerIdle
       /\ SynthIdle /\ VocoderIdle
       /\ ForwardIdle
    \/ /\ entry = "train"
       /\ TextIdle /\ InferenceIdle /\ CollateIdle /\ DatasetIdle /\ TrainerInit
       /\ SynthIdle /\ VocoderIdle
       /\ ForwardIdle
    \/ /\ entry = "synth"
       /\ TextIdle /\ InferenceIdle /\ CollateIdle /\ DatasetIdle /\ TrainerIdle
       /\ SynthInit /\ VocoderIdle
       /\ ForwardIdle
    \/ /\ entry = "vocoder"
       /\ TextIdle /\ InferenceIdle /\ CollateIdle /\ DatasetIdle /\ TrainerIdle
       /\ SynthIdle /\ VocoderInit
       /\ ForwardIdle
    \/ /\ entry = "forward"
       /\ TextIdle /\ InferenceIdle /\ CollateIdle /\ DatasetIdle /\ TrainerIdle
       /\ SynthIdle /\ VocoderIdle
       /\ ForwardInit

Next ==
    \/ TextToSequence
    \/ SequenceToText
    \/ InferenceStart
    \/ DecodeStep
    \/ InferenceReturn
    \/ CollateFn
    \/ LoadMetadataOpen
    \/ LoadMetadataLine
    \/ LoadMetadataReturn
    \/ GetItem
    \/ MainResume
    \/ CreateDataloader
    \/ ForEpoch
    \/ ForBatch
    \/ Forward
    \/ ComputeLoss
    \/ Backward
    \/ ClipGradNorm
    \/ OptimizerStep
    \/ CountStep
    \/ TrainEpochReturn
    \/ SchedulerStep
    \/ CheckpointDecision
    \/ SaveFinal
    \/ KeyboardInterrupt
    \/ LoadCheckpoint
    \/ SynthGetConfig
    \/ SynthLoadModel
    \/ MelToAudio
    \/ TrainStepForward
    \/ ForwardDecodeStep
    \/ TrainStepLoss

Spec == Init /\ [][Next]_vars

----------------------------------------------------------------------------
(* Properties of Decoder.inference *)

\* the gate values of the decode steps before the last one
EarlierGates == {gate_outputs[t] : t \in 1..(Len(gate_outputs) - 1)}

\* C1: inference runs at most max_decoder_steps decode steps and then
\* returns: the step count never passes the ceiling, every state before the
\* return has a next step, a run that reaches the ceiling goes on to the
\* return, and the spectrogram returned has between 1 and max_decoder_steps
\* frames.
C1_InferenceWithinCeiling ==
    entry = "inference" =>
        /\ Len(mel_outputs) <= max_decoder_steps
        /\ (inf_pc = "loop" => inf_i < max_decoder_steps)
        /\ (Len(mel_outputs) = max_decoder_steps => inf_pc \in {"stack", "done"})
        /\ (inf_pc \in {"idle", "loop", "stack"} =>
                ENABLED (InferenceStart \/ DecodeStep \/ InferenceReturn))
        /\ (inf_pc = "done" =>
                /\ Len(inf_result) >= 1
                /\ Len(inf_result) <= max_decoder_steps)

\* C1 witness: a run of more than one step in which the gate never exceeded
\* the threshold has returned a spectrogram of exactly the ceiling's length.
C1_Witness ==
    /\ inf_pc = "done"
    /\ max_decoder_steps > 1
    /\ Len(inf_result) = max_decoder_steps
    /\ \A t \in 1..Len(gate_outputs) : gate_outputs[t] <= gate_threshold

\* C2: decoding stops at the first step whose gate value is strictly above
\* the threshold: no step before the last one was above it, a loop that is
\* still running has seen none above it, and a finished loop either ended on
\* a step above the threshold or produced exactly max_decoder_steps frames;
\* the frames returned are the frames of those steps.
C2_StopsAtFirstGateAboveThreshold ==
    entry = "inference" =>
        /\ Len(mel_outputs) = Len(gate_outputs)
        /\ \A g \in EarlierGates : g <= gate_threshold
        /\ (inf_pc = "loop" =>
                \A t \in 1..Len(gate_outputs) : gate_outputs[t] <= gate_threshold)
        /\ (inf_pc \in {"stack", "done"} =>
                \/ gate_outputs[Len(gate_outputs)] > gate_threshold
                \/ Len(mel_outputs) = max_decoder_steps)
        /\ (inf_pc = "done" => inf_result = mel_outputs)

\* C2 witness: a step whose gate value was exactly the threshold did not
\* stop the loop, and a later step above it did, before the ceiling.
C2_Witness ==
    /\ inf_pc = "done"
    /\ Len(inf_result) < max_decoder_steps
    /\ gate_outputs[Len(gate_outputs)] > gate_threshold
    /\ gate_threshold \in EarlierGates

----------------------------------------------------------------------------
(* Properties of collate_fn *)

\* the padded mel length of the collated batch
PaddedMelLen == Cardinality(DOMAIN collated.gate[1])

\* the frames of sample i's gate row that are 1
GateOnes(i) == {j \in DOMAIN collated.gate[i] : collated.gate[i][j] = 1}

\* C3 as stated: the gate row of a sample of mel length n is 1 at every
\* frame index >= n and 0 at every frame index < n.
C3_AsStated ==
    cf_pc = "done" =>
        \A i \in DOMAIN batch : \A j \in DOMAIN collated.gate[i] :
            collated.gate[i][j] = (IF j >= batch[i].mel_length THEN 1 ELSE 0)

\* C3 amended: the gate row of a sample of mel length n is 1 at every frame
\* index >= n - 1 and 0 at every frame index < n - 1.
C3_GateOneFromLastFrame ==
    cf_pc = "done" =>
        \A i \in DOMAIN batch : \A j \in DOMAIN collated.gate[i] :
            collated.gate[i][j] = (IF j >= batch[i].mel_length - 1 THEN 1 ELSE 0)

\* C3 witness: a collated batch with a sample of at least two frames that is
\* shorter than the padded length.
C3_Witness ==
    /\ cf_pc = "done"
    /\ \E i \in DOMAIN batch :
          /\ batch[i].mel_length >= 2
          /\ batch[i].mel_length < PaddedMelLen

\* C4: for a sample of mel length n >= 1 the gate target is 1 at frame n - 1,
\* 1 at every later frame up to the padded length, and 0 at every frame
\* before n - 1.
C4_GateAtLastFrameAndPadding ==
    cf_pc = "done" =>
        \A i \in DOMAIN batch :
            LET n == batch[i].mel_length
                row == collated.gate[i]
            IN  /\ n >= 1
                /\ DOMAIN row = 0..(PaddedMelLen - 1)
                /\ row[n - 1] = 1
                /\ \A j \in n..(PaddedMelLen - 1) : row[j] = 1
                /\ \A j \in 0..(n - 2) : row[j] = 0

\* C4 witness: a collated batch of two samples, the first with frames before
\* its last one and with padding after it.
C4_Witness ==
    /\ cf_pc = "done"
    /\ Len(batch) = 2
    /\ batch[1].mel_length = 2
    /\ batch[2].mel_length = 3

\* C5 as stated: every gate row holds exactly one frame equal to 1, the
\* final valid frame of the sample.
C5_AsStated ==
    cf_pc = "done" =>
        \A i \in DOMAIN batch : GateOnes(i) = {batch[i].mel_length - 1}

\* C5 amended: every gate row holds only 0 and 1; its frames equal to 1 are
\* the final valid frame and all the padding frames after it, so there are
\* padded length - n + 1 of them, and exactly one only in the rows of the
\* samples of maximum mel length.
C5_GateOnesCount ==
    cf_pc = "done" =>
        \A i \in DOMAIN batch :
            /\ \A j \in DOMAIN collated.gate[i] : collated.gate[i][j] \in {0, 1}
            /\ (batch[i].mel_length - 1) \in GateOnes(i)
            /\ Cardinality(GateOnes(i)) = PaddedMelLen - batch[i].mel_length + 1
            /\ (Cardinality(GateOnes(i)) = 1 <=> batch[i].mel_length = PaddedMelLen)

\* C5 witness: a collated batch with one row holding a single 1 and another
\* row holding more than one.
C5_Witness ==
    /\ cf_pc = "done"
    /\ \E i, k \in DOMAIN batch :
          /\ Cardinality(GateOnes(i)) = 1
          /\ Cardinality(GateOnes(k)) > 1

\* C6: the padded text and mel rows have the batch's maximum text and mel
\* length, each sample fills the prefix of its row unchanged, the rest of
\* the row is 0, and text_lengths / mel_lengths hold each sample's own
\* length in batch order.
C6_PadsToBatchMaxima ==
    cf_pc = "done" =>
        /\ DOMAIN collated.text = DOMAIN batch
        /\ DOMAIN collated.mel = DOMAIN batch
        /\ \E T \in 0..MaxTextLen, M \in 1..MaxMelLen :
              /\ \E i \in DOMAIN batch : batch[i].text_length = T
              /\ \E i \in DOMAIN batch : batch[i].mel_length = M
              /\ \A i \in DOMAIN batch :
                    /\ batch[i].text_length <= T
                    /\ batch[i].mel_length <= M
                    /\ DOMAIN collated.text[i] = 0..(T - 1)
                    /\ DOMAIN collated.mel[i] = 0..(M - 1)
        /\ \A i \in DOMAIN batch :
              /\ \A j \in DOMAIN collated.text[i] :
                    collated.text[i][j] =
                        (IF j < batch[i].text_length THEN batch[i].text[j] ELSE 0)
              /\ \A j \in DOMAIN collated.mel[i] :
                    collated.mel[i][j] =
                        (IF j < batch[i].mel_length THEN batch[i].mel[j] ELSE 0)
              /\ collated.text_lengths[i] = batch[i].text_length
              /\ collated.mel_lengths[i] = batch[i].mel_length

\* C6 witness: a collated batch of two samples with different contents in
\* which the first is shorter in text and the second shorter in mel.
C6_Witness ==
    /\ cf_pc = "done"
    /\ Len(batch) = 2
    /\ batch[1].text_length < batch[2].text_length
    /\ batch[1].mel_length > batch[2].mel_length
    /\ batch[1].mel[0] # batch[2].mel[0]
    /\ collated.mel_lengths[1] # collated.mel_lengths[2]

----------------------------------------------------------------------------
(* Properties of the TextProcessor *)

\* the symbol vocabulary: the configured characters and the padding symbol
InVocabulary(char) == char \in Range(characters) \cup {pad_token}

\* the index the vocabulary gives a symbol: 0 for the padding symbol, the
\* 1-based position for a configured character
IndexOf(char) ==
    IF char = pad_token THEN 0
    ELSE CHOOSE k \in 1..Len(characters) : characters[k] = char

\* C7: the round trip returns a text made only of vocabulary symbols
\* unchanged, and any other text with exactly its unknown characters removed
\* and the order of the others kept.
C7_RoundTrip ==
    tp_pc = "decoded" =>
        /\ tp_roundtrip = SelectSeq(tp_text, InVocabulary)
        /\ ((\A k \in DOMAIN tp_text : InVocabulary(tp_text[k])) =>
                tp_roundtrip = tp_text)

\* C7 witness: a round trip of a text that holds an unknown character between
\* two known ones.
C7_Witness ==
    /\ tp_pc = "decoded"
    /\ Len(tp_text) = 3
    /\ InVocabulary(tp_text[1])
    /\ ~InVocabulary(tp_text[2])
    /\ InVocabulary(tp_text[3])
    /\ Len(tp_roundtrip) = 2

\* C8: text_to_sequence returns only integers in [0, vocab_size): the index
\* of each in-vocabulary character, in input order, and nothing for the
\* others, so the output is no longer than the input.
C8_SequenceInVocabRange ==
    tp_pc \in {"encoded", "decoded"} =>
        LET known == SelectSeq(tp_text, InVocabulary) IN
        /\ \A k \in DOMAIN tp_sequence :
              tp_sequence[k] \in Int /\ 0 <= tp_sequence[k] /\ tp_sequence[k] < vocab_size
        /\ Len(tp_sequence) = Len(known)
        /\ \A k \in DOMAIN tp_sequence : tp_sequence[k] = IndexOf(known[k])
        /\ Len(tp_sequence) <= Len(tp_text)

\* C8 witness: a text whose last character has the highest index and which
\* also holds an unknown character has been converted.
C8_Witness ==
    /\ tp_pc = "encoded"
    /\ Len(tp_text) = 3
    /\ tp_text[1] \in UnknownChars
    /\ tp_text[3] = characters[Len(characters)]
    /\ Len(tp_sequence) = 2

----------------------------------------------------------------------------
(* Properties of the dataset construction *)

\* a manifest row that is kept: it has an audio path and a text, and the
\* audio path exists on disk
IsRetained(line) == Len(line) >= 2 /\ line[1] \in files

\* the rows of the manifest that are kept, in manifest order
RetainedRows == SelectSeq(manifest, IsRetained)

\* no cap on the number of samples: max_samples is None or 0
NoSampleCap == max_samples = <<>> \/ max_samples = <<0>>

\* C9: constructing the dataset with a manifest path that does not exist
\* ends with the manifest-not-found error (FileNotFoundError): no dataset is
\* constructed and no audio path has been inspected.
C9_MissingManifestRaises ==
    (entry = "dataset" /\ ~manifest_exists /\ ds_pc # "new") =>
        /\ ds_pc = "raised"
        /\ ds_error = "FileNotFoundError"
        /\ samples = <<>>
        /\ inspected = <<>>

\* C9 witness: the constructor has raised although audio files exist.
C9_Witness ==
    /\ ds_pc = "raised"
    /\ ~manifest_exists
    /\ files # {}

\* C10: with no sample cap the constructed dataset holds exactly the rows of
\* the manifest whose audio path exists, in manifest order, and its length
\* is their number; no error is raised.
C10_RetainsRowsWithAudio ==
    (entry = "dataset" /\ ds_pc = "constructed" /\ NoSampleCap) =>
        /\ Len(samples) = Len(RetainedRows)
        /\ \A k \in DOMAIN samples :
              samples[k] = <<RetainedRows[k][1], RetainedRows[k][2]>>
        /\ DatasetLen = Len(RetainedRows)
        /\ ds_error = "none"

\* C10 witness: a dataset built without a cap from a manifest of three lines
\* that kept a row and dropped a row whose audio file is missing.
C10_Witness ==
    /\ ds_pc = "constructed"
    /\ NoSampleCap
    /\ Len(manifest) = 3
    /\ Len(samples) >= 1
    /\ \E k \in DOMAIN manifest :
          Len(manifest[k]) >= 2 /\ manifest[k][1] \notin files

\* C11 as stated: every sample the constructed dataset holds has audio
\* that loads, and once the dataset is constructed no access dataset[i]
\* raises.
C11_AsStated ==
    (entry = "dataset" /\ ds_pc \in {"constructed", "item", "item_raised"}) =>
        /\ \A k \in DOMAIN samples : ~LoadAudioFails(samples[k][1])
        /\ ds_error = "none"

----------------------------------------------------------------------------
(* Training over a manifest with missing audio files *)

\* C12 as stated: a training run over a manifest some of whose rows name
\* a missing audio file never raises.
C12_AsStated ==
    (entry = "train" /\ tr_missing >= 1) => tr_error = "none"

----------------------------------------------------------------------------
(* The training state machine *)

IsPrefix(s, t) == Len(s) <= Len(t) /\ \A k \in DOMAIN s : s[k] = t[k]

TrainStepOrder == <<"forward", "loss", "backward", "clip", "step">>

\* C13: within a batch the operations are forward, loss, backward, clip,
\* optimizer step in that order, and every optimizer step has its own
\* clipping before it; within an epoch the scheduler is stepped once, after
\* the last batch, with the epoch's mean loss, and the checkpoint decision
\* of the epoch comes after that scheduler step.
C13_TrainingOrder ==
    entry = "train" =>
        /\ IsPrefix(step_ops, TrainStepOrder)
        /\ tr_opt_steps <= tr_clips /\ tr_clips <= tr_opt_steps + 1
        /\ tr_pc = "optstep" => tr_clips = tr_opt_steps + 1
        /\ IsPrefix(sched_calls, losses) /\ Len(losses) <= Len(sched_calls) + 1
        /\ tr_loop <= Len(sched_calls) /\ Len(sched_calls) <= tr_loop + 1
        /\ tr_pc = "sched" => Len(sched_calls) = tr_loop
        /\ tr_pc = "decide" =>
              /\ Len(sched_calls) = tr_loop + 1
              /\ num_batches = tr_batches
              /\ sched_calls[tr_loop + 1] * num_batches = total_loss
        /\ tr_pc \in {"for_epoch", "final", "done"} =>
              Len(sched_calls) = tr_loop /\ sched_calls = losses

C13_Witness ==
    /\ entry = "train"
    /\ tr_pc = "done"
    /\ tr_batches = 2
    /\ tr_opt_steps = 4
    /\ tr_clips = 4
    /\ Len(sched_calls) = 2
    /\ sched_calls[1] # sched_calls[2]

----------------------------------------------------------------------------
(* The checkpoint decision *)

RECURSIVE MinLoss(_, _, _)
\* the smallest of best and the first k entries of ls
MinLoss(best, ls, k) ==
    IF k = 0 THEN best
    ELSE LET m == MinLoss(best, ls, k - 1)
         IN  IF ls[k] < m THEN ls[k] ELSE m

\* the best loss before the epoch numbered e (1-based) of this run
BestBefore(e) == MinLoss(tr_best_start, losses, e - 1)

\* C14: at the end of epoch e (1-based) the checkpoint file of epoch e is
\* written iff e is a multiple of checkpoint_every or the epoch's mean loss
\* is strictly below the best loss so far, and the best-model file is
\* written iff the epoch is a new best.
C14_CheckpointIffPeriodicOrBest ==
    (entry = "train" /\ tr_loop >= 1 /\ Len(losses) = tr_loop) =>
        LET e       == tr_loop
            file    == "checkpoint_epoch_" \o ToString(e) \o ".pt"
            is_best == losses[e] < BestBefore(e)
        IN  /\ (file \in tr_written) <=> (e % checkpoint_every = 0 \/ is_best)
            /\ (file \in DOMAIN disk) <=> (e % checkpoint_every = 0 \/ is_best)
            /\ (BestFile \in tr_written) <=> is_best
            /\ tr_written \subseteq {file, BestFile}
            /\ \A f \in tr_written :
                  /\ f \in DOMAIN disk
                  /\ disk[f].epoch = e - 1
                  /\ disk[f].best_loss = BestBefore(e + 1)

C14_Witness ==
    /\ entry = "train"
    /\ tr_loop = 2
    /\ Len(losses) = 2
    /\ tr_written = {"checkpoint_epoch_2.pt"}
    /\ "checkpoint_epoch_1.pt" \notin DOMAIN disk
    /\ losses[1] = tr_best_start

----------------------------------------------------------------------------
(* Resuming *)

\* C15 as stated: in a run resumed from a checkpoint the epoch counter
\* continues from the checkpoint's epoch, as in a run never interrupted.
C15_AsStated ==
    (entry = "train" /\ tr_resume # <<>> /\ tr_pc \in LoopPcs \ {"for_epoch"}) =>
        tr_epoch = disk[ResumeFile].epoch + 1 + tr_loop

----------------------------------------------------------------------------
(* KeyboardInterrupt *)

\* the number of optimizer steps in the weights when train() was called
StartWeights ==
    IF tr_resume = <<>> THEN 0 ELSE disk[ResumeFile].model_state_dict

\* C16: a KeyboardInterrupt can arrive at every point of the epoch loop,
\* and when it has been handled the interrupt checkpoint is on disk and
\* holds the trainer's state, which includes every completed epoch.
C16_InterruptWritesCheckpoint ==
    entry = "train" =>
        /\ tr_pc \in LoopPcs => ENABLED KeyboardInterrupt
        /\ tr_pc = "interrupted" =>
              /\ InterruptedFile \in DOMAIN disk
              /\ disk[InterruptedFile] = Checkpoint
              /\ disk[InterruptedFile].model_state_dict = StartWeights + tr_opt_steps
              /\ disk[InterruptedFile].model_state_dict
                    >= StartWeights + tr_loop * tr_batches
              /\ disk[InterruptedFile].scheduler_state_dict
                    >= Len(sched_calls)
              /\ disk[InterruptedFile].best_loss = BestBefore(tr_loop + 1)

C16_Witness ==
    /\ entry = "train"
    /\ tr_pc = "interrupted"
    /\ tr_loop = 1
    /\ tr_batches = 2
    /\ num_batches = 1
    /\ InterruptedFile \in DOMAIN disk
    /\ disk[InterruptedFile].model_state_dict >= 3

\* C17 as stated: the interrupt checkpoint's weights, optimizer state and
\* global_step correspond to the same number of completed batches.
C17_AsStated ==
    (entry = "train" /\ tr_pc = "interrupted") =>
        /\ disk[InterruptedFile].model_state_dict
              = disk[InterruptedFile].optimizer_state_dict
        /\ disk[InterruptedFile].model_state_dict
              = disk[InterruptedFile].global_step

----------------------------------------------------------------------------
(* Checkpoint compatibility at load time *)

\* C18: constructing the synthesizer with a configuration whose vocabulary
\* size or number of mel channels differs from the checkpoint's bundled
\* configuration raises from load_state_dict and leaves no synthesizer.
C18_ShapeMismatchRaises ==
    (/\ entry = "synth"
     /\ sy_pc \in {"ready", "raised"}
     /\ run_config # <<>>
     /\ \/ VocabSizeOf(run_config[1]) # VocabSizeOf(checkpoint.config)
        \/ run_config[1].n_mels # checkpoint.config.n_mels) =>
        /\ sy_pc = "raised"
        /\ sy_error = "RuntimeError"
        /\ sy_model = <<>>

C18_Witness ==
    /\ entry = "synth"
    /\ sy_pc = "raised"
    /\ run_config # <<>>
    /\ run_config[1].n_mels = checkpoint.config.n_mels
    /\ run_config[1].sample_rate = checkpoint.config.sample_rate
    /\ VocabSizeOf(run_config[1]) # VocabSizeOf(checkpoint.config)

\* C19 as stated: a synthesizer is constructed from a checkpoint only
\* under a configuration equal to the checkpoint's bundled configuration.
C19_AsStated ==
    (entry = "synth" /\ sy_pc = "ready") => sy_config[1] = checkpoint.config

----------------------------------------------------------------------------
(* Prenet dropout at inference *)

\* C20: in every decode step of Decoder.inference the prenet's dropout is
\* active whatever the module's mode, while the attention and decoder
\* dropouts follow the mode; after model.eval() the prenet still drops.
C20_PrenetDropoutAlways ==
    entry = "inference" =>
        /\ Len(dropouts) = Len(mel_outputs)
        /\ \A k \in DOMAIN dropouts :
              /\ dropouts[k].prenet
              /\ dropouts[k].attention = training
              /\ dropouts[k].decoder = training

C20_Witness ==
    /\ entry = "inference"
    /\ training = FALSE
    /\ inf_pc = "done"
    /\ Len(dropouts) >= 2
    /\ dropouts[2].prenet
    /\ ~dropouts[2].attention

----------------------------------------------------------------------------
(* The checkpoint bundle and its reload *)

CheckpointKeys == {"epoch", "global_step", "model_state_dict",
                   "optimizer_state_dict", "scheduler_state_dict", "config",
                   "best_loss"}

\* the files the trainer writes (the --resume file comes from an earlier run)
WrittenFiles == DOMAIN disk \ {ResumeFile}

\* C24: every checkpoint the trainer writes holds weights, optimizer state,
\* scheduler state, configuration, epoch, global step and best loss; the
\* final and the interrupt checkpoint hold the trainer's values at the
\* save, and load_checkpoint sets epoch, global_step and best_loss to the
\* values the trainer had when the file was saved.
C24_BundleAndReload ==
    entry = "train" =>
        /\ \A f \in WrittenFiles :
              /\ DOMAIN disk[f] = CheckpointKeys
              /\ disk[f].config = tr_config
        /\ \A f \in WrittenFiles \cap {FinalFile, InterruptedFile} :
              /\ disk[f].epoch = tr_epoch
              /\ disk[f].global_step = global_step
              /\ disk[f].best_loss = best_loss
              /\ disk[f].model_state_dict = weights
              /\ disk[f].optimizer_state_dict = opt_state
              /\ disk[f].scheduler_state_dict = sched_state
        /\ reloaded # <<>> =>
              /\ reloaded[1].epoch = disk[reloaded[1].path].epoch
              /\ reloaded[1].global_step = disk[reloaded[1].path].global_step
              /\ reloaded[1].best_loss = disk[reloaded[1].path].best_loss
              /\ reloaded[1].path \in {FinalFile, InterruptedFile} =>
                    /\ reloaded[1].epoch = tr_epoch
                    /\ reloaded[1].global_step = global_step
                    /\ reloaded[1].best_loss = best_loss

C24_Witness ==
    /\ entry = "train"
    /\ tr_pc = "done"
    /\ reloaded # <<>>
    /\ reloaded[1].path = FinalFile
    /\ reloaded[1].epoch = 1
    /\ reloaded[1].global_step = 4
    /\ reloaded[1].best_loss = 12
    /\ BestFile \in DOMAIN disk

----------------------------------------------------------------------------
(* best_loss and global_step over a run *)

\* C25: best_loss never increases, after every completed epoch it is the
\* minimum of its value at the call of train() and the epoch means so far,
\* and a checkpoint written as a new best stores that minimum.
C25_BestLossIsRunningMinimum ==
    /\ [](entry = "train" =>
            /\ tr_pc \in {"for_epoch", "final", "done"} =>
                  /\ Len(losses) = tr_loop
                  /\ best_loss = MinLoss(tr_best_start, losses, tr_loop)
            /\ \A k \in DOMAIN losses :
                  (k <= tr_loop /\ tr_pc # "decide") => best_loss <= losses[k]
            /\ best_loss <= tr_best_start
            /\ (tr_pc = "for_epoch" /\ BestFile \in tr_written) =>
                  /\ disk[BestFile].best_loss = MinLoss(tr_best_start, losses, tr_loop)
                  /\ disk[BestFile].best_loss = losses[tr_loop]
                  /\ disk[EpochFile(tr_loop - 1)].best_loss = losses[tr_loop])
    /\ [][best_loss' <= best_loss]_vars

C25_Witness ==
    /\ entry = "train"
    /\ tr_pc = "for_epoch"
    /\ tr_loop = 2
    /\ losses = <<12, 24>>
    /\ best_loss = 12
    /\ tr_best_start = 18
    /\ disk[BestFile].best_loss = 12

\* self.global_step when train() was called
StartStep ==
    IF tr_resume = <<>> THEN 0 ELSE disk[ResumeFile].global_step

\* C26: global_step grows by exactly 1 with each train_step that completes
\* its optimizer step, train() never resets or lowers it, and after E
\* complete epochs of B batches from the value s it is s + E*B.
C26_GlobalStepCountsBatches ==
    /\ [](entry = "train" /\ tr_pc # "created" =>
            /\ tr_pc = "count" => global_step = StartStep + tr_opt_steps - 1
            /\ tr_pc \notin {"count", "interrupted"} =>
                  global_step = StartStep + tr_opt_steps
            /\ tr_pc = "for_epoch" =>
                  global_step = StartStep + tr_loop * tr_batches
            /\ tr_pc \in {"final", "done"} =>
                  global_step = StartStep + tr_epochs * tr_batches)
    /\ [][tr_pc # "created" =>
            /\ global_step' \in {global_step, global_step + 1}
            /\ (global_step' = global_step + 1) <=> (tr_pc = "count" /\ tr_pc' # "interrupted")]_vars

C26_Witness ==
    /\ entry = "train"
    /\ tr_pc = "done"
    /\ tr_resume # <<>>
    /\ StartStep = 2
    /\ tr_epochs = 2
    /\ tr_batches = 2
    /\ global_step = 6

----------------------------------------------------------------------------
(* The epoch recorded in checkpoints *)

\* C30: train() sets the trainer's epoch to the zero-based loop index in
\* every epoch, so the file checkpoint_epoch_n records epoch n-1, and after
\* train(epochs=E) returns the trainer, the final model and a checkpoint
\* saved from then on record epoch E-1, whatever epoch the trainer held
\* before the call.
C30_EpochIsLoopIndex ==
    entry = "train" =>
        /\ tr_pc \in LoopPcs \ {"for_epoch"} => tr_epoch = tr_loop
        /\ \A n \in 1..tr_epochs :
              LET file == "checkpoint_epoch_" \o ToString(n) \o ".pt"
              IN  file \in DOMAIN disk => disk[file].epoch = n - 1
        /\ tr_pc = "done" =>
              /\ tr_epoch = tr_epochs - 1
              /\ disk[FinalFile].epoch = tr_epochs - 1
              /\ Checkpoint.epoch = tr_epochs - 1

C30_Witness ==
    /\ entry = "train"
    /\ tr_pc = "done"
    /\ tr_resume # <<>>
    /\ disk[ResumeFile].epoch = 1
    /\ tr_epochs = 1
    /\ disk[FinalFile].epoch = 0
    /\ "checkpoint_epoch_1.pt" \in DOMAIN disk

----------------------------------------------------------------------------
(* The sample cap *)

\* the number of manifest lines the constructor considers
ConsideredLines ==
    IF NoSampleCap \/ max_samples[1] >= Len(manifest)
    THEN Len(manifest) ELSE max_samples[1]

\* the kept rows among the first ConsideredLines lines, in manifest order
RetainedOfConsidered == SelectSeq(SubSeq(manifest, 1, ConsideredLines), IsRetained)

\* C27: with max_samples = N >= 1 the dataset holds the kept rows of the
\* first N manifest lines, malformed lines and rows with missing audio
\* counting among the N, so its length is at most N; with max_samples None
\* or 0 all lines are considered.
C27_CapCountsLines ==
    (entry = "dataset" /\ ds_pc = "constructed") =>
        /\ Len(samples) = Len(RetainedOfConsidered)
        /\ \A k \in DOMAIN samples :
              samples[k] = <<RetainedOfConsidered[k][1], RetainedOfConsidered[k][2]>>
        /\ ~NoSampleCap => DatasetLen <= max_samples[1]
        /\ NoSampleCap => DatasetLen = Len(RetainedRows)

\* C27 witness: a cap of 2 on a manifest with two valid rows after a
\* malformed line yields a dataset of one sample.
C27_Witness ==
    /\ entry = "dataset"
    /\ ds_pc = "constructed"
    /\ max_samples = <<2>>
    /\ Len(RetainedRows) >= 2
    /\ DatasetLen = 1
    /\ Len(manifest[1]) < 2

----------------------------------------------------------------------------
(* The padding symbol as input *)

IsPadToken(char) == char = pad_token

\* C28: a padding symbol in a text is converted, not dropped: it yields
\* index 0 at its place among the known characters, and index 0 comes from
\* no other character.
C28_PadTokenMapsToZero ==
    (entry = "text" /\ tp_pc \in {"encoded", "decoded"}) =>
        LET known == SelectSeq(tp_text, InVocabulary) IN
        /\ Len(tp_sequence) = Len(known)
        /\ \A k \in DOMAIN tp_sequence :
              (tp_sequence[k] = 0) <=> (known[k] = pad_token)
        /\ Len(SelectSeq(tp_text, IsPadToken))
              = Cardinality({k \in DOMAIN tp_sequence : tp_sequence[k] = 0})
        /\ char_to_idx[pad_token] = 0
        /\ \A c \in DOMAIN char_to_idx : char_to_idx[c] = 0 => c = pad_token

\* C28 witness: a text with the padding symbol between a configured and an
\* unknown character has been converted.
C28_Witness ==
    /\ entry = "text"
    /\ tp_pc = "encoded"
    /\ Len(tp_text) = 3
    /\ tp_text[1] \in Range(characters)
    /\ tp_text[2] = pad_token
    /\ tp_text[3] \in UnknownChars
    /\ Len(tp_sequence) = 2
    /\ tp_sequence[2] = 0

----------------------------------------------------------------------------
(* Vocoder determinism *)

\* C21 as stated: two calls of mel_to_audio on the same mel spectrogram
\* return the same waveform.
C21_AsStated ==
    (entry = "vocoder" /\ Len(vo_audio) = 2) => vo_audio[1] = vo_audio[2]

----------------------------------------------------------------------------
(* The decoder's step input *)

\* the padded mel length of the batch
PaddedLength == Cardinality(DOMAIN fw_batch.mel)

\* C22: the decoder's input at step t is the zero go frame for t = 0 and
\* the frame of t-1 otherwise: the ground-truth frame in Decoder.forward,
\* whose loop runs the padded mel length, and the decoder's own prediction
\* (before the postnet) in Decoder.inference.
C22_StepInputIsPreviousFrame ==
    /\ entry = "forward" =>
          /\ Len(fw_inputs) = Len(fw_mel_outputs)
          /\ \A k \in DOMAIN fw_inputs :
                fw_inputs[k] = IF k = 1 THEN 0 ELSE fw_batch.mel[k - 2]
          /\ fw_pc = "loss" => Len(fw_inputs) = PaddedLength
          /\ \A k \in DOMAIN fw_results :
                Cardinality(DOMAIN fw_results[k].mel_outputs) = PaddedLength
    /\ entry = "inference" =>
          /\ Len(inf_inputs) = Len(mel_outputs)
          /\ \A k \in DOMAIN inf_inputs :
                inf_inputs[k] = IF k = 1 THEN 0 ELSE mel_outputs[k - 1]
          /\ (inf_pc = "loop" /\ mel_outputs # <<>>) =>
                decoder_input = mel_outputs[Len(mel_outputs)]
          /\ (inf_pc = "loop" /\ mel_outputs = <<>>) => decoder_input = 0

\* C22 witness: a teacher-forced decode over a padded length of 3 whose
\* second input is the first target frame although another was predicted.
C22_Witness ==
    /\ entry = "forward"
    /\ fw_pc = "loss"
    /\ PaddedLength = 3
    /\ Len(fw_inputs) = 3
    /\ fw_inputs[1] = 0
    /\ fw_inputs[2] = fw_batch.mel[0]
    /\ fw_inputs[2] # fw_mel_outputs[1]
    /\ fw_inputs[3] = fw_batch.mel[1]

----------------------------------------------------------------------------
(* The attention state of a decode *)

RECURSIVE SumWeights(_, _)
\* the sum of the first n attention-weight vectors of list
SumWeights(list, n) ==
    IF n = 0 THEN <<0, 0>>
    ELSE LET rest == SumWeights(list, n - 1)
         IN  <<rest[1] + list[n][1], rest[2] + list[n][2]>>

\* the attention state after the steps that produced the alignments als,
\* and what each step's attention was computed from
AttentionStateOk(states, args, als) ==
    /\ Len(args) = Len(als)
    /\ states.attention_weights_cum = SumWeights(als, Len(als))
    /\ states.attention_weights = IF als = <<>> THEN <<0, 0>> ELSE als[Len(als)]
    /\ \A t \in DOMAIN args :
          args[t] = <<IF t = 1 THEN <<0, 0>> ELSE als[t - 1], SumWeights(als, t - 1)>>

\* C23: every decode starts from all-zero attention state whatever an
\* earlier decode left, after step t the cumulative vector is the sum of the
\* attention weights of steps 1..t, and the attention of step t is computed
\* from the weights and the cumulative vector of before step t.
C23_AttentionStateAccumulates ==
    /\ entry = "forward" =>
          /\ AttentionStateOk(fw_states, fw_att_args, fw_alignments)
          /\ Len(fw_alignments) = Len(fw_mel_outputs)
          /\ (fw_pc = "loop" /\ fw_t = 0) => fw_states = initialize_states
    /\ entry = "inference" =>
          /\ AttentionStateOk(inf_states, inf_att_args, alignments)
          /\ Len(alignments) = Len(mel_outputs)
          /\ (inf_pc = "loop" /\ mel_outputs = <<>>) => inf_states = initialize_states

\* C23 witness: two steps into a second decode, after a first decode of three
\* steps, the cumulative vector holds the two steps of this decode only.
C23_Witness ==
    /\ entry = "forward"
    /\ Len(fw_results) = 1
    /\ PaddedLength = 3
    /\ fw_pc = "loop"
    /\ fw_t = 2
    /\ fw_states.attention_weights_cum = <<1, 1>>
    /\ fw_att_args[2] = <<<<1, 0>>, <<1, 0>>>>

----------------------------------------------------------------------------
(* mel_lengths and the loss *)

====
